---------------------------- MODULE Spec2Model ----------------------------
(***************************************************************************)
(* A model of SVD-Loader.py: the reduction of peripheral memory regions,   *)
(* the region-building loop, the memory block loop and the peripheral      *)
(* structure generation loop.                                              *)
(*                                                                         *)
(* The script is a Ghidra (Jython 2.7) script: "/" on two ints is floor    *)
(* division, which \div models.  Under true division the lengths handed    *)
(* to StructureDataType and getAddress would be floats and no structure    *)
(* could be built at all.                                                  *)
(*                                                                         *)
(* An optional value (None or a value) is a sequence: << >> is None and    *)
(* <<v>> is the value v.  A name is the sequence of the peripheral names   *)
(* it was joined from: <<"A", "B">> is the string "A_B", and \o is the     *)
(* join with "_".                                                          *)
(***************************************************************************)
EXTENDS Integers, Sequences, FiniteSets

VARIABLES
    pc,                     \* where the script, or the call under study, is
    peripherals,            \* parser.get_device().peripherals
    default_register_size,  \* parser.get_device().size
    p,                      \* index of `peripheral` in the running for loop
    end,                    \* the script's global `end`: << >> while unbound
    memory_regions,         \* the list `memory_regions` / `regions`
    input,                  \* the list as handed to the outermost reduce call
    ids,                    \* ids[k]: index in input of the object memory_regions[k]
    log,                    \* the merges made, in order: [into, from] object ids
    run,                    \* 1: first call of reduce; 2: the call on its own output
    saved,                  \* what the first call returned
    b,                      \* index of `r` in the memory block loop
    blocks,                 \* blocks created by createUninitializedBlock
    report,                 \* names printed by "Failed to generate memory block for"
    length,                 \* `length` of the structure being generated
    k,                      \* index of `register` in the placement loop
    fields,                 \* the replaceAtOffset calls made on peripheral_struct
    status                  \* per peripheral: what the generation loop did with it

vars == <<pc, peripherals, default_register_size, p, end, memory_regions, input,
          ids, log, run, saved, b, blocks, report, length, k, fields, status>>

(***************************************************************************)
(* Bounds of the model.                                                    *)
(***************************************************************************)
MaxRegions == 3
MaxAddr == 2
MaxPeripherals == 2
MaxBase == 2
MaxRegs == 2
MaxOffset == 2

Min(x, y) == IF x <= y THEN x ELSE y
Max(x, y) == IF x >= y THEN x ELSE y

SeqsUpTo(S, n) == UNION {[1..m -> S] : m \in 0..n}

(***************************************************************************)
(* class MemoryRegion                                                      *)
(***************************************************************************)
MemoryRegion(name, start, stop) == [name |-> name, start |-> start, end |-> stop]

RegionLength(r) == r.end - r.start

(***************************************************************************)
(* reduce_memory_regions                                                   *)
(***************************************************************************)
\* Mutation of Disjoint: touching regions taken for disjoint (<= for <).
DisjointStrict(r1, r2) == r1.end <= r2.start \/ r2.end <= r1.start

\* The two `continue` tests of the inner loop.
Disjoint(r1, r2) == r1.end < r2.start \/ r2.end < r1.start

\* The pairs (i, j) the double loop would stop at.
Hits(regions) ==
    {h \in (1..Len(regions)) \X (1..Len(regions)) :
        h[1] # h[2] /\ ~Disjoint(regions[h[1]], regions[h[2]])}

\* The pair the double loop stops at: i ascending, then j ascending.
FirstHit(regions) ==
    CHOOSE h \in Hits(regions) :
        \A g \in Hits(regions) : h[1] < g[1] \/ (h[1] = g[1] /\ h[2] <= g[2])

\* Mutation of Merged: the end taken from r2 alone, without max.
MergedEndOfSecond(r1, r2) ==
    [name |-> r1.name \o r2.name, start |-> Min(r1.start, r2.start), end |-> r2.end]

\* Mutation of Merged: the names joined the other way round.
MergedNameSwapped(r1, r2) ==
    [name |-> r2.name \o r1.name,
     start |-> Min(r1.start, r2.start), end |-> Max(r1.end, r2.end)]

\* The three assignments to regions[i].
Merged(r1, r2) ==
    [name |-> r1.name \o r2.name,
     start |-> Min(r1.start, r2.start), end |-> Max(r1.end, r2.end)]

\* Mutation of RemoveAt: the absorbed region left in the list.
RemoveNothing(s, j) == s

\* regions.remove(regions[j]): the objects of the list are distinct and
\* MemoryRegion defines no __eq__, so the first equal element is the j-th.
RemoveAt(s, j) == [x \in 1..(Len(s) - 1) |-> IF x < j THEN s[x] ELSE s[x + 1]]

\* Mutation of AfterMerge: `return regions` after one merge, no recursion.
ReturnAfterMerge == "returned"

\* `return reduce_memory_regions(regions)`: the scan starts again.
AfterMerge == "reduce"

\* One call of reduce_memory_regions that finds an overlapping pair.
ScanMerge ==
    /\ pc = "reduce"
    /\ Hits(memory_regions) # {}
    /\ LET h == FirstHit(memory_regions)
           i == h[1]
           j == h[2]
           r1 == memory_regions[i]
           r2 == memory_regions[j]
       IN /\ memory_regions' =
                 RemoveAt([memory_regions EXCEPT ![i] = Merged(r1, r2)], j)
          /\ ids' = RemoveAt(ids, j)
          /\ log' = Append(log, [into |-> ids[i], from |-> ids[j]])
    /\ pc' = AfterMerge
    /\ UNCHANGED <<peripherals, default_register_size, p, end, input, run, saved,
                   b, blocks, report, length, k, fields, status>>

\* One call of reduce_memory_regions whose scan finds nothing: `return regions`.
ScanReturn ==
    /\ pc = "reduce"
    /\ Hits(memory_regions) = {}
    /\ pc' = "returned"
    /\ UNCHANGED <<peripherals, default_register_size, p, end, memory_regions, input,
                   ids, log, run, saved, b, blocks, report, length, k, fields, status>>

\* reduce_memory_regions called on what it returned.
Reapply ==
    /\ pc = "returned"
    /\ run = 1
    /\ run' = 2
    /\ saved' = memory_regions
    /\ input' = memory_regions
    /\ ids' = [x \in 1..Len(memory_regions) |-> x]
    /\ log' = << >>
    /\ pc' = "reduce"
    /\ UNCHANGED <<peripherals, default_register_size, p, end, memory_regions,
                   b, blocks, report, length, k, fields, status>>

LabelPool == <<"A", "B", "C", "D", "E", "F">>

NamedRegions(s) == [x \in 1..Len(s) |-> MemoryRegion(<<LabelPool[x]>>, s[x][1], s[x][2])]

\* The lists reduce_memory_regions is studied on, the k-th region named
\* LabelPool[k]: every list of at most MaxRegions well-formed regions over the
\* addresses 0..MaxAddr, and every list of fewer regions in which regions
\* may be malformed (end < start), as the region-building loop can make them.
RegionLists ==
    {NamedRegions(s) :
        s \in SeqsUpTo({a \in (0..MaxAddr) \X (0..MaxAddr) : a[1] <= a[2]}, MaxRegions)
              \cup SeqsUpTo((0..MaxAddr) \X (0..MaxAddr), MaxRegions - 1)}

InitReduce ==
    /\ pc = "reduce"
    /\ input \in RegionLists
    /\ memory_regions = input
    /\ ids = [x \in 1..Len(input) |-> x]
    /\ log = << >>
    /\ run = 1
    /\ saved = << >>
    /\ peripherals = << >>
    /\ default_register_size = 32
    /\ p = 1
    /\ end = << >>
    /\ b = 1
    /\ blocks = << >>
    /\ report = << >>
    /\ length = 0
    /\ k = 1
    /\ fields = << >>
    /\ status = << >>

NextReduce == ScanMerge \/ ScanReturn \/ Reapply

SpecReduce == InitReduce /\ [][NextReduce]_vars /\ WF_vars(NextReduce)

(***************************************************************************)
(* The parsed device: peripherals and registers.                           *)
(***************************************************************************)
Register(offset, size) == [address_offset |-> offset, _size |-> size]

AddressBlock(offset, size) == [offset |-> offset, size |-> size]

Peripheral(name, base, block, registers) ==
    [name |-> name, base_address |-> base, address_block |-> block,
     registers |-> registers]

\* `default_register_size if not register._size else register._size`:
\* None and 0 are both false.
EffectiveSize(register, default) ==
    IF register._size = << >> \/ register._size = <<0>>
    THEN default
    ELSE register._size[1]

(***************************************************************************)
(* calculate_peripheral_size                                               *)
(***************************************************************************)
RECURSIVE SizeLoop(_, _, _)
\* The for loop of calculate_peripheral_size, from the running `size`.
SizeLoop(registers, default, size) ==
    IF registers = << >> THEN size
    ELSE SizeLoop(Tail(registers), default,
                  Max(size, Head(registers).address_offset
                                + EffectiveSize(Head(registers), default) \div 8))

RECURSIVE LastEndLoop(_, _, _)
\* Mutation of SizeLoop: `size = offset + bytes`, the max forgotten.
LastEndLoop(registers, default, size) ==
    IF registers = << >> THEN size
    ELSE LastEndLoop(Tail(registers), default,
                     Head(registers).address_offset
                         + EffectiveSize(Head(registers), default) \div 8)

\* Mutation of calculate_peripheral_size: the last register's end.
calculate_peripheral_size_last(peripheral, default) ==
    LastEndLoop(peripheral.registers, default, 0)

RECURSIVE SumLoop(_, _)
\* The sum of the register lengths in bytes, as the region-building loop
\* accumulates it in peripheral_length.
SumLoop(registers, default) ==
    IF registers = << >> THEN 0
    ELSE EffectiveSize(Head(registers), default) \div 8
             + SumLoop(Tail(registers), default)

\* Mutation of calculate_peripheral_size: the sum of the register sizes.
calculate_peripheral_size_sum(peripheral, default) ==
    SumLoop(peripheral.registers, default)

calculate_peripheral_size(peripheral, default) ==
    SizeLoop(peripheral.registers, default, 0)

(***************************************************************************)
(* The region-building loop.                                               *)
(***************************************************************************)
\* The value of `end` after the if / elif of one iteration: unchanged, and
\* possibly still unbound, when the peripheral has neither an address block
\* nor registers.
RegionEnd(peripheral, default, old) ==
    IF peripheral.address_block # << >>
    THEN <<peripheral.base_address
             + (peripheral.address_block[1].offset + peripheral.address_block[1].size)>>
    ELSE IF Len(peripheral.registers) > 0
         THEN <<peripheral.base_address + SumLoop(peripheral.registers, default)>>
         ELSE old

\* One iteration of `for peripheral in peripherals` of the region loop.
BuildRegion ==
    /\ pc = "regions"
    /\ p <= Len(peripherals)
    /\ LET peripheral == peripherals[p]
           start == peripheral.base_address
           stop == RegionEnd(peripheral, default_register_size, end)
       IN \/ /\ peripheral.name = "_INTERRUPTS"
             /\ p' = p + 1
             /\ UNCHANGED <<pc, end, memory_regions>>
          \/ /\ peripheral.name # "_INTERRUPTS"
             /\ stop # << >>
             /\ end' = stop
             /\ memory_regions' =
                    Append(memory_regions, MemoryRegion(<<peripheral.name>>, start, stop[1]))
             /\ p' = p + 1
             /\ UNCHANGED pc
          \/ \* `end` is read while unbound: NameError, the script ends.
             /\ peripheral.name # "_INTERRUPTS"
             /\ stop = << >>
             /\ pc' = "crashed"
             /\ UNCHANGED <<p, end, memory_regions>>
    /\ UNCHANGED <<peripherals, default_register_size, input, ids, log, run, saved,
                   b, blocks, report, length, k, fields, status>>

\* `memory_regions = reduce_memory_regions(memory_regions)`: the call.
CallReduce ==
    /\ pc = "regions"
    /\ p > Len(peripherals)
    /\ input' = memory_regions
    /\ ids' = [x \in 1..Len(memory_regions) |-> x]
    /\ log' = << >>
    /\ pc' = "reduce"
    /\ UNCHANGED <<peripherals, default_register_size, p, end, memory_regions, run,
                   saved, b, blocks, report, length, k, fields, status>>

(***************************************************************************)
(* The memory block loop.                                                  *)
(***************************************************************************)
\* One iteration of `for r in memory_regions`: the block is created, or a
\* call of the try body raises and the except clause prints the failure.
CreateBlock ==
    /\ pc = "returned"
    /\ run = 0
    /\ b <= Len(memory_regions)
    /\ LET r == memory_regions[b]
       IN \/ /\ blocks' = Append(blocks, [name |-> r.name, start |-> r.start,
                                         length |-> RegionLength(r)])
             /\ UNCHANGED report
          \/ /\ report' = Append(report, r.name)
             /\ UNCHANGED blocks
    /\ b' = b + 1
    /\ UNCHANGED <<pc, peripherals, default_register_size, p, end, memory_regions,
                   input, ids, log, run, saved, length, k, fields, status>>

\* The block loop is over: "Generating peripherals...".
StartGenerating ==
    /\ pc = "returned"
    /\ run = 0
    /\ b > Len(memory_regions)
    /\ pc' = "generate"
    /\ p' = 1
    /\ UNCHANGED <<peripherals, default_register_size, end, memory_regions, input,
                   ids, log, run, saved, b, blocks, report, length, k, fields, status>>

(***************************************************************************)
(* The peripheral structure generation loop.                               *)
(***************************************************************************)
\* Mutation of RegisterType: bits compared where bytes are meant.
RegisterTypeOfBits(rs) ==
    IF rs = 8 THEN "ByteDataType"
    ELSE IF rs = 16 THEN "UnsignedShortDataType"
    ELSE IF rs = 64 THEN "UnsignedLongLongDataType"
    ELSE "UnsignedIntegerDataType"

\* r_type for rs = register_size / 8.
RegisterType(rs) ==
    IF rs = 1 THEN "ByteDataType"
    ELSE IF rs = 2 THEN "UnsignedShortDataType"
    ELSE IF rs = 8 THEN "UnsignedLongLongDataType"
    ELSE "UnsignedIntegerDataType"

\* The two `continue` of the loop: no registers, or no address block.
GenerateSkip ==
    /\ pc = "generate"
    /\ p <= Len(peripherals)
    /\ Len(peripherals[p].registers) = 0 \/ peripherals[p].address_block = << >>
    /\ status' = [status EXCEPT ![p] = "skipped"]
    /\ p' = p + 1
    /\ UNCHANGED <<pc, peripherals, default_register_size, end, memory_regions, input,
                   ids, log, run, saved, b, blocks, report, length, k, fields>>

\* calculate_peripheral_size and StructureDataType(peripheral.name, length);
\* the constructor may raise, and nothing catches it: the script ends.
GenerateStruct ==
    /\ pc = "generate"
    /\ p <= Len(peripherals)
    /\ Len(peripherals[p].registers) # 0
    /\ peripherals[p].address_block # << >>
    /\ length' = calculate_peripheral_size(peripherals[p], default_register_size)
    /\ \/ /\ pc' = "place"
          /\ k' = 1
          /\ fields' = << >>
          /\ UNCHANGED status
       \/ /\ pc' = "aborted"
          /\ status' = [status EXCEPT ![p] = "raised"]
          /\ UNCHANGED <<k, fields>>
    /\ UNCHANGED <<peripherals, default_register_size, p, end, memory_regions, input,
                   ids, log, run, saved, b, blocks, report>>

\* One iteration of `for register in peripheral.registers`: the type is
\* chosen and replaceAtOffset called; it may raise, and nothing catches it.
PlaceRegister ==
    /\ pc = "place"
    /\ k <= Len(peripherals[p].registers)
    /\ LET register == peripherals[p].registers[k]
           register_size == EffectiveSize(register, default_register_size)
           rs == register_size \div 8
       IN \/ /\ fields' = Append(fields, [offset |-> register.address_offset,
                                         r_type |-> RegisterType(rs),
                                         length |-> register_size \div 8,
                                         bits |-> register_size])
             /\ k' = k + 1
             /\ UNCHANGED <<pc, status>>
          \/ /\ pc' = "aborted"
             /\ status' = [status EXCEPT ![p] = "raised"]
             /\ UNCHANGED <<k, fields>>
    /\ UNCHANGED <<peripherals, default_register_size, p, end, memory_regions, input,
                   ids, log, run, saved, b, blocks, report, length>>

\* addDataType, createData and createLabel; any of them may raise, and
\* nothing catches it.
RegisterStruct ==
    /\ pc = "place"
    /\ k > Len(peripherals[p].registers)
    /\ \/ /\ status' = [status EXCEPT ![p] = "generated"]
          /\ p' = p + 1
          /\ pc' = "generate"
       \/ /\ pc' = "aborted"
          /\ status' = [status EXCEPT ![p] = "raised"]
          /\ UNCHANGED p
    /\ UNCHANGED <<peripherals, default_register_size, end, memory_regions, input,
                   ids, log, run, saved, b, blocks, report, length, k, fields>>

\* The loop is over and the script ends.
Finish ==
    /\ pc = "generate"
    /\ p > Len(peripherals)
    /\ pc' = "done"
    /\ UNCHANGED <<peripherals, default_register_size, p, end, memory_regions, input,
                   ids, log, run, saved, b, blocks, report, length, k, fields, status>>

(***************************************************************************)
(* The script as a whole, on lists of small peripherals.                   *)
(***************************************************************************)
DefaultSizes == {16, 32}

\* Peripherals with or without an address block of one byte, with or
\* without one register of the default size.
ScriptPeripherals ==
    {Peripheral(n, base, block, registers) :
        n \in {"_INTERRUPTS", "GPIOA", "GPIOB"},
        base \in 0..MaxBase,
        block \in {<< >>, <<AddressBlock(0, 1)>>},
        registers \in {<< >>, <<Register(0, << >>)>>}}

\* The lists of at most MaxPeripherals such peripherals, each name used once.
PeripheralLists ==
    {s \in SeqsUpTo(ScriptPeripherals, MaxPeripherals) :
        \A x, y \in 1..Len(s) : x # y => s[x].name # s[y].name}

Init ==
    /\ pc = "regions"
    /\ peripherals \in PeripheralLists
    /\ default_register_size \in DefaultSizes
    /\ p = 1
    /\ end = << >>
    /\ memory_regions = << >>
    /\ input = << >>
    /\ ids = << >>
    /\ log = << >>
    /\ run = 0
    /\ saved = << >>
    /\ b = 1
    /\ blocks = << >>
    /\ report = << >>
    /\ length = 0
    /\ k = 1
    /\ fields = << >>
    /\ status = [x \in 1..Len(peripherals) |-> "pending"]

Next ==
    \/ BuildRegion
    \/ CallReduce
    \/ ScanMerge
    \/ ScanReturn
    \/ CreateBlock
    \/ StartGenerating
    \/ GenerateSkip
    \/ GenerateStruct
    \/ PlaceRegister
    \/ RegisterStruct
    \/ Finish

Spec == Init /\ [][Next]_vars /\ WF_vars(Next)

(***************************************************************************)
(* The generation of one peripheral's structure, on every small peripheral.*)
(***************************************************************************)
Widths == {0, 8, 12, 16, 24, 64}

Registers ==
    {Register(offset, size) :
        offset \in 0..MaxOffset, size \in {<< >>} \cup {<<w>> : w \in Widths}}

LayoutPeripherals ==
    {Peripheral("GPIOA", 0, block, registers) :
        block \in {<< >>, <<AddressBlock(0, 1)>>},
        registers \in SeqsUpTo(Registers, MaxRegs)}

InitLayout ==
    /\ pc = "generate"
    /\ \E peripheral \in LayoutPeripherals : peripherals = <<peripheral>>
    /\ default_register_size \in DefaultSizes
    /\ p = 1
    /\ end = << >>
    /\ memory_regions = << >>
    /\ input = << >>
    /\ ids = << >>
    /\ log = << >>
    /\ run = 0
    /\ saved = << >>
    /\ b = 1
    /\ blocks = << >>
    /\ report = << >>
    /\ length = 0
    /\ k = 1
    /\ fields = << >>
    /\ status = <<"pending">>

NextLayout == GenerateSkip \/ GenerateStruct \/ PlaceRegister \/ RegisterStruct \/ Finish

SpecLayout == InitLayout /\ [][NextLayout]_vars /\ WF_vars(NextLayout)

(***************************************************************************)
(* Properties of reduce_memory_regions.                                    *)
(***************************************************************************)
WellFormed(regions) == \A x \in 1..Len(regions) : regions[x].start <= regions[x].end

Returned == pc = "returned"

\* The addresses a list of regions covers: a region is the block of
\* length end - start at start (MemoryRegion.length, createUninitializedBlock).
Covered(regions) ==
    {a \in 0..(MaxAddr + 1) :
        \E x \in 1..Len(regions) : regions[x].start <= a /\ a < regions[x].end}

\* The same with the end address taken as part of the region.
CoveredClosed(regions) ==
    {a \in 0..(MaxAddr + 1) :
        \E x \in 1..Len(regions) : regions[x].start <= a /\ a <= regions[x].end}

\* C1: for a well-formed input, no two distinct regions of the returned list
\* overlap or touch: a.end < b.start or b.end < a.start for every pair.
C1_Disjointness ==
    (Returned /\ WellFormed(input)) =>
        \A x, y \in 1..Len(memory_regions) :
            x # y => \/ memory_regions[x].end < memory_regions[y].start
                     \/ memory_regions[y].end < memory_regions[x].start

\* A returned list for a well-formed input holding two touching regions of
\* non-zero length, such as [0,1) and [1,2).
C1_Witness ==
    /\ Returned /\ run = 1 /\ WellFormed(input)
    /\ \E x, y \in 1..Len(input) :
          /\ x # y
          /\ input[x].end = input[y].start
          /\ input[x].start < input[x].end
          /\ input[y].start < input[y].end

\* C2: for a well-formed input, the returned regions cover exactly the
\* addresses the input regions cover, and each covered address lies in
\* exactly one returned region.
C2_Coverage ==
    (Returned /\ WellFormed(input)) =>
        /\ Covered(memory_regions) = Covered(input)
        /\ CoveredClosed(memory_regions) = CoveredClosed(input)
        /\ \A a \in CoveredClosed(memory_regions) :
              Cardinality({x \in 1..Len(memory_regions) :
                  memory_regions[x].start <= a /\ a <= memory_regions[x].end}) = 1

\* A returned list for a well-formed input in which a region was absorbed
\* that reached past the end of the region absorbing it, and another one
\* that lay inside it.
C2_Witness ==
    /\ Returned /\ run = 1 /\ WellFormed(input)
    /\ Len(log) >= 2
    /\ \E x, y \in 1..Len(log) :
          /\ log[x].into = log[y].into
          /\ input[log[x].from].end > input[log[x].into].end
          /\ input[log[y].from].start >= input[log[y].into].start
    /\ Covered(input) # {}

NoHit(regions) ==
    \A x, y \in 1..Len(regions) :
        x # y => (regions[x].end < regions[y].start \/ regions[y].end < regions[x].start)

\* C3: on every input list, each merge removes exactly one region, at most
\* n - 1 merges happen for n regions, a call returns at the first scan that
\* finds no overlapping or touching pair, and the call terminates: the call
\* on the input returns, and so does the call made on its result.
C3_Termination ==
    /\ [](/\ Len(memory_regions) = Len(input) - Len(log)
          /\ Len(log) <= Max(Len(input) - 1, 0)
          /\ Returned => NoHit(memory_regions))
    /\ [][/\ memory_regions' # memory_regions => Len(memory_regions') = Len(memory_regions) - 1
          /\ (pc = "reduce" /\ NoHit(memory_regions)) =>
                 (pc' = "returned" /\ memory_regions' = memory_regions)]_vars
    /\ <>(Returned /\ run = 2)

\* A call that returned after n - 1 merges of a list of n = MaxRegions regions.
C3_Witness ==
    /\ Returned /\ run = 1
    /\ Len(input) = MaxRegions
    /\ Len(log) = MaxRegions - 1
    /\ Len(memory_regions) = 1

RECURSIVE AbsorbedNames(_, _, _)
\* The input names of the regions that object id absorbed, in merge order.
AbsorbedNames(id, lg, regions) ==
    IF lg = << >> THEN << >>
    ELSE (IF Head(lg).into = id THEN regions[Head(lg).from].name ELSE << >>)
             \o AbsorbedNames(id, Tail(lg), regions)

RECURSIVE AllNames(_)
AllNames(regions) ==
    IF regions = << >> THEN << >> ELSE Head(regions).name \o AllNames(Tail(regions))

Count(t, s) == Cardinality({x \in 1..Len(s) : s[x] = t})

\* C8: for a well-formed input, each returned region's name is its own input
\* name followed by the input names of the regions it absorbed, in the order
\* of the merges, and every input name occurs exactly once in the output.
C8_Labels ==
    (Returned /\ WellFormed(input)) =>
        /\ \A x \in 1..Len(memory_regions) :
              memory_regions[x].name =
                  input[ids[x]].name \o AbsorbedNames(ids[x], log, input)
        /\ \A t \in {LabelPool[x] : x \in 1..Len(LabelPool)} :
              Count(t, AllNames(memory_regions)) = Count(t, AllNames(input))

\* A returned region that absorbed two regions, the later one of the list first.
C8_Witness ==
    /\ Returned /\ run = 1 /\ WellFormed(input)
    /\ \E x \in 1..Len(memory_regions) :
          /\ Len(memory_regions[x].name) = 3
          /\ memory_regions[x].name[2] = LabelPool[3]
          /\ memory_regions[x].name[3] = LabelPool[2]

\* C9: calling reduce_memory_regions on what it returned merges nothing and
\* returns the same list: same regions, order, starts, ends and names.
C9_Idempotence ==
    run = 2 => (log = << >> /\ memory_regions = saved)

\* The second call returned, on a first result of two regions one of which
\* is a merged one.
C9_Witness ==
    /\ run = 2 /\ Returned
    /\ Len(saved) >= 2
    /\ \E x \in 1..Len(saved) : Len(saved[x].name) >= 2

(***************************************************************************)
(* Properties of the region-building loop and of the generation loop.      *)
(***************************************************************************)
\* C4: every region the region-building loop appends to the list handed to
\* reduce_memory_regions satisfies start <= end.
C4_RegionsWellFormed ==
    pc = "regions" => WellFormed(memory_regions)

\* C5: when the script has ended, no peripheral of the list is left
\* unprocessed: a failure in one peripheral's structure generation does not
\* keep the later peripherals from being processed.
C5_Isolation ==
    pc \in {"done", "aborted"} =>
        \A x \in 1..Len(peripherals) : status[x] # "pending"

\* The register the x-th replaceAtOffset call was made for.
PlacedRegister(x) == peripherals[p].registers[x]

\* The effective width in bits as the claims word it: the explicit size if
\* set, else the device default.
SizeIfSet(register) ==
    IF register._size # << >> THEN register._size[1] ELSE default_register_size

\* The effective width in bits with a size of 0 read as no size.
SizeIfSetAndNonZero(register) ==
    IF register._size # << >> /\ register._size[1] # 0
    THEN register._size[1]
    ELSE default_register_size

MaxOf(S) == CHOOSE m \in S : \A n \in S : n <= m

Reversed(s) == [x \in 1..Len(s) |-> s[Len(s) + 1 - x]]

\* C7 as claimed: the length is the maximum over the registers of
\* address_offset + effective bits / 8, the effective bits being the explicit
\* size if set and the default otherwise.
C7_FootprintIfSet ==
    pc = "place" =>
        length = MaxOf({r.address_offset + SizeIfSet(r) \div 8 :
                           r \in {peripherals[p].registers[x] :
                                     x \in 1..Len(peripherals[p].registers)}})

\* C7 as amended: the same, the effective bits being the explicit size if set
\* and not 0 and the default otherwise; the register order and the address
\* block do not change it; offsets 0, 4, 6 with sizes 32, 16 and the default
\* 32 give 10.
C7_Footprint ==
    /\ pc = "place" =>
          /\ length = MaxOf({r.address_offset + SizeIfSetAndNonZero(r) \div 8 :
                                r \in {peripherals[p].registers[x] :
                                          x \in 1..Len(peripherals[p].registers)}})
          /\ length = calculate_peripheral_size(
                          [peripherals[p] EXCEPT !.registers = Reversed(@)],
                          default_register_size)
          /\ length = calculate_peripheral_size(
                          [peripherals[p] EXCEPT !.address_block = <<AddressBlock(0, 1024)>>],
                          default_register_size)
    /\ calculate_peripheral_size(
           Peripheral("TIM", 0, <<AddressBlock(0, 1024)>>,
                      <<Register(0, <<32>>), Register(4, <<16>>), Register(6, << >>)>>),
           32) = 10

\* A structure of two registers, one of an explicit size and one of the
\* default size, whose length is set by the first register and is not the
\* sum of the two sizes.
C7_Witness ==
    /\ pc = "place"
    /\ Len(peripherals[p].registers) = 2
    /\ LET r1 == peripherals[p].registers[1]
           r2 == peripherals[p].registers[2]
       IN /\ r1._size \notin {<< >>, <<0>>}
          /\ r2._size = << >>
          /\ length = r1.address_offset + r1._size[1] \div 8
          /\ length > r2.address_offset + default_register_size \div 8
          /\ length # r1._size[1] \div 8 + default_register_size \div 8

\* C10: every field placed in a structure ends inside it: the offset plus
\* the width in bytes handed to replaceAtOffset is at most the length from
\* calculate_peripheral_size.
C10_PlacementsFit ==
    pc = "place" =>
        \A x \in 1..Len(fields) :
            /\ fields[x].offset = PlacedRegister(x).address_offset
            /\ fields[x].offset + fields[x].length <= length

\* Two fields placed, the first ending exactly at the structure's length and
\* the second, of another width, before it.
C10_Witness ==
    /\ pc = "place"
    /\ Len(fields) = 2
    /\ fields[1].offset + fields[1].length = length
    /\ fields[2].offset + fields[2].length < length
    /\ fields[1].length # fields[2].length
    /\ fields[2].offset > 0

=============================================================================
